---------------------------- MODULE Spec2Model ----------------------------
(***************************************************************************)
(* Model of the two source-rewriting scripts of the repository:            *)
(*   optimize_truckbay.py      (throttle guards, tick counter, React.memo) *)
(*   split_ambient_details.py  (splitting a file into category files)      *)
(* A source buffer is a string, exactly as in the scripts; positions are   *)
(* 1-based (Python position p is p+1 here) and 0 stands for "not found"    *)
(* (Python's -1 / None).  Every regular expression of the scripts is       *)
(* translated into the search it performs on the characters.               *)
(***************************************************************************)
EXTENDS Integers, Sequences, FiniteSets, TLC

VARIABLES
    src,             \* optimizer: the file as first read
    content,         \* optimizer: the buffer being rewritten
    prev,            \* optimizer: the buffer before the last call
    last,            \* optimizer: the last call made
    before,          \* optimizer: the call made before it
    nops,            \* optimizer: number of calls made
    source_content,  \* splitter: the file read at line 11
    gi,              \* splitter: index of the next category of the loop at line 109
    files,           \* splitter: files written, as <<filename, content>>, in order
    warnings,        \* splitter: names printed by the warning at line 97
    reports,         \* splitter: <<filename, extracted_count, total>> printed at line 101
    returns          \* splitter: value returned by each create_category_file call

optVars   == <<src, content, prev, last, before, nops>>
splitVars == <<source_content, gi, files, warnings, reports, returns>>
vars      == <<src, content, prev, last, before, nops,
               source_content, gi, files, warnings, reports, returns>>

---------------------------------------------------------------------------
(* String primitives (str.startswith / str.find / str.rfind / slicing).    *)

StartsAt(s, i, lit) ==
    /\ i >= 1
    /\ i + Len(lit) - 1 <= Len(s)
    /\ SubSeq(s, i, i + Len(lit) - 1) = lit

Occurrences(s, lit) == { k \in 1..(Len(s) - Len(lit) + 1) : StartsAt(s, k, lit) }

\* least / greatest position of a set of positions, 0 when there is none
First(hits) == IF hits = {} THEN 0 ELSE CHOOSE k \in hits : \A j \in hits : k <= j

Last(hits) == IF hits = {} THEN 0 ELSE CHOOSE k \in hits : \A j \in hits : k >= j

\* str.find(lit, i): the first occurrence at or after i, or 0
Find(s, lit, i) == First({ k \in i..(Len(s) - Len(lit) + 1) : StartsAt(s, k, lit) })

\* str.rfind(lit) in s[lo..hi]: the last occurrence lying wholly inside, or 0
RFind(s, lit, lo, hi) == Last({ k \in lo..(hi - Len(lit) + 1) : StartsAt(s, k, lit) })

From(s, i) == SubSeq(s, i, Len(s))

InsertAfter(s, pos, t) == SubSeq(s, 1, pos) \o t \o From(s, pos + 1)

Upper == {"A","B","C","D","E","F","G","H","I","J","K","L","M",
          "N","O","P","Q","R","S","T","U","V","W","X","Y","Z"}

IsSpace(c) == c \in {" ", "\n", "\t", "\r"}

\* re.sub(literal, literal + extra): extra is inserted after every occurrence
RECURSIVE InsertAfterEach(_, _, _, _)
InsertAfterEach(s, lit, extra, pos) ==
    LET i == Find(s, lit, pos) IN
    IF i = 0 THEN From(s, pos)
    ELSE SubSeq(s, pos, i + Len(lit) - 1) \o extra
         \o InsertAfterEach(s, lit, extra, i + Len(lit))

---------------------------------------------------------------------------
(* optimize_truckbay.py : add_throttle_to_component                        *)

\* group 2 at k:  useFrame\(\([^)]*\) => \{   -> position of its last char, or 0
UseFrameEnd(s, k) ==
    IF ~StartsAt(s, k, "useFrame((") THEN 0
    ELSE LET q == Find(s, ")", k + 10) IN
         IF q # 0 /\ StartsAt(s, q, ") => {") THEN q + 5 ELSE 0

\* [^}]*? followed by group 2: the first k >= k0 where group 2 matches, no '}'
\* before it (r is the first '}' after the opening brace, 0 if there is none)
RECURSIVE LazyUseFrame(_, _, _)
LazyUseFrame(s, k0, r) ==
    LET k == Find(s, "useFrame((", k0)
        e == UseFrameEnd(s, k)
    IN  IF k = 0 \/ (r # 0 /\ k > r) THEN 0
        ELSE IF e # 0 THEN e
        ELSE LazyUseFrame(s, k + 1, r)

\* the pattern anchored at i:  const NAME [^{]* \{ [^}]*? useFrame...
ThrottleMatchEnd(s, component_name, i) ==
    LET j == Find(s, "{", i + Len("const " \o component_name)) IN
    IF j = 0 THEN 0
    ELSE LazyUseFrame(s, j + 1, Find(s, "}", j + 1))

\* leftmost match starting at or after pos: the position of its last char, or 0
RECURSIVE ThrottleSearch(_, _, _)
ThrottleSearch(s, component_name, pos) ==
    LET i == Find(s, "const " \o component_name, pos)
        e == ThrottleMatchEnd(s, component_name, i)
    IN  IF i = 0 THEN 0
        ELSE IF e # 0 THEN e
        ELSE ThrottleSearch(s, component_name, i + 1)

Guard(throttle_level) ==
    "\n    if (!shouldRunThisFrame(" \o ToString(throttle_level) \o ")) return;"

\* re.sub(pattern, replacer, content): every non-overlapping match, left to right
RECURSIVE SubThrottle(_, _, _, _)
SubThrottle(s, component_name, throttle_level, pos) ==
    LET e == ThrottleSearch(s, component_name, pos) IN
    IF e = 0 THEN From(s, pos)
    ELSE SubSeq(s, pos, e) \o Guard(throttle_level)
         \o SubThrottle(s, component_name, throttle_level, e + 1)

add_throttle_to_component(s, component_name, throttle_level) ==
    SubThrottle(s, component_name, throttle_level, 1)

---------------------------------------------------------------------------
(* optimize_truckbay.py : add_frame_throttling                             *)

ParticleThrottle == 2
LightThrottle    == 4
SlowThrottle     == 3
MediumThrottle   == 2

particle_components == <<"ExhaustSmoke">>

light_components == <<"DOTMarkerLights", "DockStatusLight", "TruckAlignmentGuides">>

slow_anim_components ==
    <<"RollUpDoor", "DockShelter", "DockLeveler", "DockPlate",
      "WheelChock", "DockForklift", "DockSpotter", "WarehouseWorkerWithPalletJack",
      "WeightScale", "YardJockey", "GuardShack", "MudflapWithChains",
      "AirHoseStation", "ScaleTicketKiosk", "StretchWrapMachine",
      "PalletJackChargingStation", "OverheadCrane", "CardboardCompactor",
      "IntercomCallBox", "TruckWashStation", "TimeClockStation">>

medium_anim_components == <<"ReeferUnit">>

import_pattern == "import { useFrame } from '@react-three/fiber';"

import_added ==
    "\nimport { shouldRunThisFrame, incrementGlobalFrame } from '../utils/frameThrottle';"

\* for component in components: content = add_throttle_to_component(...)
\* (an empty buffer has nothing to rewrite; testing it first also makes TLC
\* compute each intermediate buffer before the next iteration)
RECURSIVE ThrottleAll(_, _, _, _)
ThrottleAll(s, components, throttle_level, k) ==
    IF s = "" \/ k > Len(components) THEN s
    ELSE ThrottleAll(add_throttle_to_component(s, components[k], throttle_level),
                     components, throttle_level, k + 1)

add_frame_throttling(s) ==
    LET c0 == InsertAfterEach(s, import_pattern, import_added, 1)
        c1 == ThrottleAll(c0, particle_components, ParticleThrottle, 1)
        c2 == ThrottleAll(c1, light_components, LightThrottle, 1)
        c3 == ThrottleAll(c2, slow_anim_components, SlowThrottle, 1)
    IN  ThrottleAll(c3, medium_anim_components, MediumThrottle, 1)

---------------------------------------------------------------------------
(* optimize_truckbay.py : memoize_static_components                        *)

static_components ==
    <<"TrafficCone", "SpeedBump", "ConcreteBollard", "FifthWheelCoupling",
      "GladHands", "ICCReflectiveTape", "SlidingTandemAxles", "ManifestHolder",
      "FuelTank", "AirTank", "LandingGear", "DEFTank", "CBAntennaComponent",
      "SunVisor", "TireInspectionArea", "FuelIsland", "NoIdlingSign",
      "PalletStaging", "HeadlightBeam", "LicensePlate", "GrainCoLogo",
      "FlourExpressLogo", "TPMSSensor", "TrailerLockRods", "TrailerSkirts",
      "DriverRestroom", "TrailerDropYard", "MaintenanceBay", "DockBumperWithWear",
      "DockFloorMarkings", "SafetyMirror", "FireExtinguisherStation", "HazmatPlacard",
      "DriverBreakRoom", "EmployeeParking", "PropaneTankCage", "DumpsterArea">>

SkipChars == 50

MemoOpen == "React.memo("

\* pattern anchored at i:  const NAME: React\.FC<[^>]*> =   -> last char, or 0
HeaderEnd(s, component, i) ==
    LET head == "const " \o component \o ": React.FC<" IN
    IF ~StartsAt(s, i, head) THEN 0
    ELSE LET g == Find(s, ">", i + Len(head)) IN
         IF g # 0 /\ StartsAt(s, g, "> = ") THEN g + 3 ELSE 0

\* leftmost position i >= pos where the header pattern matches, or 0
RECURSIVE HeaderSearch(_, _, _)
HeaderSearch(s, component, pos) ==
    LET i == Find(s, "const " \o component \o ": React.FC<", pos) IN
    IF i = 0 THEN 0
    ELSE IF HeaderEnd(s, component, i) # 0 THEN i
    ELSE HeaderSearch(s, component, i + 1)

\* re.search(check_pattern, content): some header is followed by React.memo(
RECURSIVE AlreadyMemoized(_, _, _)
AlreadyMemoized(s, component, pos) ==
    LET i == HeaderSearch(s, component, pos) IN
    IF i = 0 THEN FALSE
    ELSE IF StartsAt(s, HeaderEnd(s, component, i) + 1, MemoOpen) THEN TRUE
    ELSE AlreadyMemoized(s, component, i + 1)

\* re.sub(pattern, r"\1React.memo(", content)
RECURSIVE SubMemo(_, _, _)
SubMemo(s, component, pos) ==
    LET i == HeaderSearch(s, component, pos)
        e == HeaderEnd(s, component, i)
    IN  IF i = 0 THEN From(s, pos)
        ELSE SubSeq(s, pos, e) \o MemoOpen \o SubMemo(s, component, e + 1)

\* re.search(r"\n(const [A-Z]|export const TruckBay)", content[from:]) -> position
\* of the "\n", or 0
RECURSIVE NextComp(_, _)
NextComp(s, from) ==
    LET p == Find(s, "\n", from) IN
    IF p = 0 THEN 0
    ELSE IF \/ (StartsAt(s, p + 1, "const ") /\ p + 7 <= Len(s)
                /\ SubSeq(s, p + 7, p + 7) \in Upper)
            \/ StartsAt(s, p + 1, "export const TruckBay")
         THEN p
    ELSE NextComp(s, p + 1)

\* lines 119-136: where the closing paren goes (inserted after this position), or 0
CloseAfter(s, component) ==
    LET comp_start == Find(s, "const " \o component \o ":", 1) IN
    IF comp_start = 0 THEN 0
    ELSE LET m == NextComp(s, comp_start + SkipChars) IN
         IF m = 0 THEN 0
         ELSE LET last_close == RFind(s, "};", comp_start, m - 1) IN
              IF last_close = 0 THEN 0 ELSE last_close + 1

\* one iteration of the loop of memoize_static_components
MemoizeOne(s, component) ==
    IF AlreadyMemoized(s, component, 1) THEN s
    ELSE LET c == SubMemo(s, component, 1)
             a == CloseAfter(c, component)
         IN  IF a = 0 THEN c ELSE InsertAfter(c, a, ")")

\* for component in static_components: ...   (an empty buffer stays empty)
RECURSIVE MemoizeFrom(_, _)
MemoizeFrom(s, k) ==
    IF s = "" \/ k > Len(static_components) THEN s
    ELSE MemoizeFrom(MemoizeOne(s, static_components[k]), k + 1)

memoize_static_components(s) == MemoizeFrom(s, 1)

---------------------------------------------------------------------------
(* optimize_truckbay.py : consolidate_main_useframe                        *)

ClockHead == "useFrame((state, delta) => {"

ClockStmt == "const time = state.clock.elapsedTime;"

Increment == "\n    incrementGlobalFrame(); // Track global frame for throttling"

\* \s+ : the first non-space position at or after i
RECURSIVE SkipSpace(_, _)
SkipSpace(s, i) ==
    IF i <= Len(s) /\ IsSpace(SubSeq(s, i, i)) THEN SkipSpace(s, i + 1) ELSE i

\* the pattern anchored at i -> last char, or 0
ClockMatchEnd(s, i) ==
    LET w == i + Len(ClockHead)
        t == SkipSpace(s, w)
    IN  IF StartsAt(s, i, ClockHead) /\ t > w /\ StartsAt(s, t, ClockStmt)
        THEN t + Len(ClockStmt) - 1 ELSE 0

RECURSIVE SubClock(_, _)
SubClock(s, pos) ==
    LET i == Find(s, ClockHead, pos)
        e == ClockMatchEnd(s, i)
    IN  IF i = 0 THEN From(s, pos)
        ELSE IF e = 0 THEN SubSeq(s, pos, i) \o SubClock(s, i + 1)
        ELSE SubSeq(s, pos, e) \o Increment \o SubClock(s, e + 1)

consolidate_main_useframe(s) == SubClock(s, 1)

---------------------------------------------------------------------------
(* split_ambient_details.py : module data (lines 14-63)                    *)

\* one repetition of (import .*?;.*?\n) anchored at u -> position of its "\n", or 0
ImportUnitEnd(s, u) ==
    IF ~StartsAt(s, u, "import ") THEN 0
    ELSE LET sc == Find(s, ";", u + 7) IN
         IF sc = 0 THEN 0 ELSE Find(s, "\n", sc + 1)

\* (...)+ : repetitions are taken while the next one starts right after the last
RECURSIVE ImportRunEnd(_, _)
ImportRunEnd(s, e) ==
    IF ImportUnitEnd(s, e + 1) = 0 THEN e
    ELSE ImportRunEnd(s, ImportUnitEnd(s, e + 1))

\* re.search(r'(import .*?;.*?\n)+', source_content, re.DOTALL).group(0), or ""
ImportsFrom(s, u) ==
    IF u = 0 THEN "" ELSE SubSeq(s, u, ImportRunEnd(s, ImportUnitEnd(s, u)))

original_imports(s) ==
    ImportsFrom(s, First({ u \in Occurrences(s, "import ") : ImportUnitEnd(s, u) # 0 }))

categories ==
    << [filename |-> "AtmosphericEffects.tsx",
        components |-> <<"Cobweb", "RustStain", "OilPuddle", "RainPuddle", "RoofLeakPuddle",
                         "WindowCondensation", "CeilingWaterStain", "GodRays", "DustBunny">>,
        description |-> "Atmospheric and weather effects"],
       [filename |-> "FactoryProps.tsx",
        components |-> <<"StackedPallets", "ToolRack", "HardHatHook", "CleaningEquipment",
                         "OilDrum", "GasCylinder", "Toolbox", "TrashBin", "CoffeeCup",
                         "Sawhorse", "MaintenanceCart", "VendingMachine", "TimeClockStation">>,
        description |-> "Static factory props and decorations"],
       [filename |-> "IndustrialDetails.tsx",
        components |-> <<"CableTray", "DrainageGrate", "ExhaustFan", "ElectricalPanel",
                         "SwingingChain", "PressureGauge", "ValveWheel", "PASpeaker",
                         "AlarmBell", "LoadingDockDoor">>,
        description |-> "Industrial equipment and infrastructure"],
       [filename |-> "SafetyEquipment.tsx",
        components |-> <<"SafetySign", "FireExtinguisherStation", "EmergencyShower",
                         "EyeWashStation", "EarPlugDispenser", "SafetyGogglesRack",
                         "FirstAidKit", "AccidentBoard">>,
        description |-> "Safety equipment and signage"],
       [filename |-> "ControlSystems.tsx",
        components |-> <<"ControlPanel", "ControlPanelLED", "VibrationIndicator",
                         "FactoryWallClock", "OutOfOrderSign", "OpenedPanel">>,
        description |-> "Control panels and monitoring systems"],
       [filename |-> "PersonalItems.tsx",
        components |-> <<"JacketOnHook", "UmbrellaCorner", "LunchBag", "WaterBottle",
                         "FoldedNewspaper", "CigaretteButts", "StuckGum", "StickyNote",
                         "ScatteredPens", "ExtensionCord">>,
        description |-> "Personal items and micro-details"],
       [filename |-> "AmbientLife.tsx",
        components |-> <<"Pigeon", "Mouse", "Flies", "Spider", "MothSwarm", "Cockroach">>,
        description |-> "Ambient creatures and wildlife"],
       [filename |-> "DecorativeElements.tsx",
        components |-> <<"Graffiti", "BulletinBoard", "ScorchMark", "ChalkOutline",
                         "EmployeeOfMonth", "OldRadio", "BirthdayDecorations",
                         "WallCalendar">>,
        description |-> "Decorative and storytelling elements"] >>

---------------------------------------------------------------------------
(* split_ambient_details.py : extract_component                            *)

\* (?:export )?const NAME:  anchored at e -> its length, or 0
HeaderLen(s, component_name, e) ==
    IF StartsAt(s, e, "export const " \o component_name \o ":")
    THEN Len("export const " \o component_name \o ":")
    ELSE IF StartsAt(s, e, "const " \o component_name \o ":")
    THEN Len("const " \o component_name \o ":")
    ELSE 0

Keyword(s, y) ==
    StartsAt(s, y, "const") \/ StartsAt(s, y, "//") \/ StartsAt(s, y, "export default")

\* the lookahead of pattern 1 / pattern 2 at x (x is just after the "\n" that ends
\* the match)
Lookahead(s, which, x) ==
    IF which = 1
    THEN /\ StartsAt(s, x, "\n")
         /\ \/ Keyword(s, x + 1)
            \/ (StartsAt(s, x + 1, "export ") /\ Keyword(s, x + 8))
    ELSE StartsAt(s, x, "};\n")

\* group 2 anchored at e, its header h long: .*? stops at the first "\n" the
\* lookahead accepts -> position of that "\n", or 0
CodeStop(s, which, e, h) ==
    IF h = 0 THEN 0
    ELSE First({ q \in (e + h)..Len(s) :
                   StartsAt(s, q, "\n") /\ Lookahead(s, which, q + 1) })

CodeEnd(s, component_name, which, e) ==
    CodeStop(s, which, e, HeaderLen(s, component_name, e))

\* positions where group 2 and the rest of the pattern match: each is a
\* "const NAME:" (plain) or the "export " in front of one
CodeStartsAmong(s, component_name, which, plain) ==
    { e \in plain \cup { x - 7 : x \in plain } : CodeEnd(s, component_name, which, e) # 0 }

CodeStarts(s, component_name, which) ==
    CodeStartsAmong(s, component_name, which,
                    Occurrences(s, "const " \o component_name \o ":"))

\* group 1 anchored at c:  //.*NAME.*?\n  directly followed by group 2.
\* The pairs <<p, e>>: NAME occurs at p, a "\n" at or after its end is directly
\* followed by a position e (one of starts) where the rest matches.
CommentChoices(s, component_name, starts, c) ==
    IF ~StartsAt(s, c, "//") THEN {}
    ELSE { pe \in { p \in Occurrences(s, component_name) : p >= c + 2 } \X starts :
             /\ pe[2] >= pe[1] + Len(component_name) + 1
             /\ StartsAt(s, pe[2] - 1, "\n") }

\* greedy .* takes the last NAME that works (p), lazy .*? then the nearest "\n"
NearestAfter(ch, p) == First({ pe[2] : pe \in { y \in ch : y[1] = p } })

CommentEnd(ch) == NearestAfter(ch, Last({ pe[1] : pe \in ch }))

\* the match that starts at m: group 1 is taken when it can be
MatchAt(s, component_name, which, codeStarts, m) ==
    IF CommentChoices(s, component_name, codeStarts, m) # {}
    THEN SubSeq(s, m, CodeEnd(s, component_name, which,
                        CommentEnd(CommentChoices(s, component_name, codeStarts, m))) - 1)
    ELSE SubSeq(s, m, CodeEnd(s, component_name, which, m) - 1)

\* the leftmost position where the pattern matches
MatchStart(s, component_name, codeStarts) ==
    First(codeStarts \cup { c \in Occurrences(s, "//") :
                             CommentChoices(s, component_name, codeStarts, c) # {} })

PatternAmong(s, component_name, which, codeStarts) ==
    IF codeStarts = {} THEN ""
    ELSE MatchAt(s, component_name, which, codeStarts,
                 MatchStart(s, component_name, codeStarts))

\* re.search(pattern, source_content, re.DOTALL) -> comment + code, or "" when
\* there is no match (a match is never empty)
PatternText(s, component_name, which) ==
    PatternAmong(s, component_name, which, CodeStarts(s, component_name, which))

\* lines 73-80; "" stands for None
FirstMatch(first, second) ==
    IF first # "" THEN first \o "\n};\n"
    ELSE IF second # "" THEN second \o "\n};\n"
    ELSE ""

extract_component(s, component_name) ==
    FirstMatch(PatternText(s, component_name, 1), PatternText(s, component_name, 2))

---------------------------------------------------------------------------
(* split_ambient_details.py : create_category_file                         *)

\* lines 92-97: st is [content, extracted_count, warned]
LoopBody(st, component_name, component_code) ==
    IF component_code # ""
    THEN [st EXCEPT !.content = @ \o component_code \o "\n",
                    !.extracted_count = @ + 1]
    ELSE [st EXCEPT !.warned = Append(@, component_name)]

\* (a variant of the loop that gives up at the first name it cannot extract)
RECURSIVE ExtractLoopStopping(_, _, _, _)
ExtractLoopStopping(s, components, k, st) ==
    IF k > Len(components) THEN st
    ELSE IF extract_component(s, components[k]) = ""
    THEN LoopBody(st, components[k], "")
    ELSE ExtractLoopStopping(s, components, k + 1,
             LoopBody(st, components[k], extract_component(s, components[k])))

\* the loop of lines 91-97 from the k-th name on
RECURSIVE ExtractLoop(_, _, _, _)
ExtractLoop(s, components, k, st) ==
    IF k > Len(components) THEN st
    ELSE ExtractLoop(s, components, k + 1,
                     LoopBody(st, components[k], extract_component(s, components[k])))

CategoryResult(s, components, description) ==
    ExtractLoop(s, components, 1,
        [content |-> original_imports(s) \o "\n" \o "// " \o description \o "\n\n",
         extracted_count |-> 0,
         warned |-> <<>>])

---------------------------------------------------------------------------
(* Input files of the optimizer: an import line, then component            *)
(* definitions separated by blank lines, laid out as in the comments of    *)
(* the script (lines 60-64, 101-102, 144-147).                             *)

MaxComps == 2
MaxOps   == 2

ExactType == ": React.FC<P> = "
OtherType == ": FC<P> = "

PlainBody == "() => {\n  return null;\n};\n"
FrameBody == "() => {\n  useFrame((state) => {\n    spin();\n  });\n  return null;\n};\n"
PropsBody == "({ a }) => {\n  useFrame((state) => {\n    spin();\n  });\n  return null;\n};\n"
BlockBody == "() => {\n  if (a) { b(); }\n  useFrame((state) => {\n    spin();\n  });\n  return null;\n};\n"
ClockBody == "() => {\n  useFrame((state, delta) => {\n    const time = state.clock.elapsedTime;\n  });\n  return null;\n};\n"
MainBody  == "({ productionSpeed }) => {\n  useFrame((state, delta) => {\n    const time = state.clock.elapsedTime;\n  });\n  return null;\n};\n"
ParenBody == "() => (\n  <mesh />\n);\n"
AliasBody == "Base;\n"
OpenBody  == "() => {\n  return null;\n"

\* <<export prefix, name, header type, body>>
Catalog ==
    { <<"",        "DockPlate",       ExactType, FrameBody>>,
      <<"",        "DockPlate",       ExactType, PropsBody>>,
      <<"",        "DockPlateRamp",   ExactType, FrameBody>>,
      <<"",        "ExhaustSmoke",    ExactType, FrameBody>>,
      <<"",        "DockStatusLight", ExactType, BlockBody>>,
      <<"",        "ReeferUnit",      ExactType, ClockBody>>,
      <<"",        "AirTank",         ExactType, PlainBody>>,
      <<"",        "AirTank",         OtherType, FrameBody>>,
      <<"",        "AirTank",         ExactType, AliasBody>>,
      <<"",        "FuelTank",        ExactType, PlainBody>>,
      <<"",        "FuelTank",        ExactType, ParenBody>>,
      <<"",        "FuelTank",        ExactType, OpenBody>>,
      <<"export ", "TruckBay",        ExactType, MainBody>> }

CompText(c) == c[1] \o "const " \o c[2] \o c[3] \o c[4]

ImportText == "import { useFrame } from '@react-three/fiber';\n"

RECURSIVE JoinComps(_, _)
JoinComps(cs, k) ==
    IF k > Len(cs) THEN ""
    ELSE "\n" \o CompText(cs[k]) \o JoinComps(cs, k + 1)

FileText(cs) == ImportText \o JoinComps(cs, 1)

\* component names are unique within a file; a body that never closes can only
\* be the last thing in the file
Layouts ==
    { cs \in UNION { [1..n -> Catalog] : n \in 1..MaxComps } :
        /\ \A i, j \in DOMAIN cs : i # j => cs[i][2] # cs[j][2]
        /\ \A i \in DOMAIN cs : cs[i][4] = OpenBody => i = Len(cs) }

Inputs == { FileText(cs) : cs \in Layouts }

---------------------------------------------------------------------------
(* The optimizer as a state machine: main() applies the three passes to    *)
(* the buffer (lines 162-169); the file is rewritten in place (line 157),  *)
(* so a pass can meet its own earlier output.                              *)

\* the calls add_frame_throttling makes (lines 42-52) for the names of the Catalog
Calls == { <<"ExhaustSmoke", ParticleThrottle>>, <<"DockPlate", SlowThrottle>> }

NoOp == [op |-> "none", name |-> "", level |-> 0]

SplitIdle ==
    /\ source_content = "" /\ gi = 0 /\ files = <<>> /\ warnings = <<>>
    /\ reports = <<>> /\ returns = <<>>

Init ==
    /\ src \in Inputs
    /\ content = src
    /\ prev = src
    /\ last = NoOp
    /\ before = NoOp
    /\ nops = 0
    /\ SplitIdle

Record(what) ==
    /\ prev' = content
    /\ before' = last
    /\ last' = what
    /\ nops' = nops + 1
    /\ UNCHANGED <<src, source_content, gi, files, warnings, reports, returns>>

AddThrottleToComponent ==
    /\ nops < MaxOps
    /\ \E c \in Calls :
        /\ content' = add_throttle_to_component(content, c[1], c[2])
        /\ Record([op |-> "throttle_one", name |-> c[1], level |-> c[2]])

AddFrameThrottling ==
    /\ nops < MaxOps
    /\ content' = add_frame_throttling(content)
    /\ Record([op |-> "throttle", name |-> "", level |-> 0])

ConsolidateMainUseframe ==
    /\ nops < MaxOps
    /\ content' = consolidate_main_useframe(content)
    /\ Record([op |-> "consolidate", name |-> "", level |-> 0])

MemoizeStaticComponents ==
    /\ nops < MaxOps
    /\ content' = memoize_static_components(content)
    /\ Record([op |-> "memoize", name |-> "", level |-> 0])

Next ==
    \/ AddThrottleToComponent
    \/ AddFrameThrottling
    \/ ConsolidateMainUseframe
    \/ MemoizeStaticComponents

Spec == Init /\ [][Next]_vars

---------------------------------------------------------------------------
(* Input files of the splitter: the import block, an optional file         *)
(* comment, then component definitions separated by blank lines.           *)

MaxSplitComps == 2

SplitType == ": React.FC = "

\* <<text before "const", name, body>>
SplitCatalog ==
    { <<"",                      "Pigeon",          PlainBody>>,
      <<"// Pigeon on a beam\n", "Pigeon",          PlainBody>>,
      <<"",                      "Mouse",           PlainBody>>,
      <<"",                      "Mouse",           ParenBody>>,
      <<"export ",               "ControlPanel",    PlainBody>>,
      <<"",                      "ControlPanelLED", FrameBody>> }

SplitCompText(c) == c[1] \o "const " \o c[2] \o SplitType \o c[3]

SplitImports == "import React from 'react';\nimport { useFrame } from '@react-three/fiber';\n"

FileComment == "// Ambient details\n"

RECURSIVE JoinSplitComps(_, _)
JoinSplitComps(cs, k) ==
    IF k > Len(cs) THEN ""
    ELSE "\n" \o SplitCompText(cs[k]) \o JoinSplitComps(cs, k + 1)

SplitFileText(cs, commented) ==
    SplitImports \o (IF commented THEN "\n" \o FileComment ELSE "")
    \o JoinSplitComps(cs, 1)

SplitLayouts ==
    { cs \in UNION { [1..n -> SplitCatalog] : n \in 1..MaxSplitComps } :
        \A i, j \in DOMAIN cs : i # j => cs[i][2] # cs[j][2] }

SplitInputs == { SplitFileText(cs, b) : cs \in SplitLayouts, b \in BOOLEAN }

---------------------------------------------------------------------------
(* The splitter as a state machine: the loop of lines 109-110 calls        *)
(* create_category_file once per category, in the order of the dict.       *)

OptIdle ==
    /\ src = "" /\ content = "" /\ prev = "" /\ last = NoOp /\ before = NoOp
    /\ nops = 0

SplitInit ==
    /\ source_content \in SplitInputs
    /\ gi = 1
    /\ files = <<>>
    /\ warnings = <<>>
    /\ reports = <<>>
    /\ returns = <<>>
    /\ OptIdle

\* create_category_file(filename, config["components"], config["description"])
CreateCategoryFile ==
    /\ gi >= 1
    /\ gi <= Len(categories)
    /\ LET config == categories[gi]
           r == CategoryResult(source_content, config.components, config.description)
       IN  /\ warnings' = warnings \o r.warned
           /\ IF r.extracted_count > 0
              THEN /\ files' = Append(files, <<config.filename, r.content>>)
                   /\ reports' = Append(reports,
                          <<config.filename, r.extracted_count, Len(config.components)>>)
                   /\ returns' = Append(returns, TRUE)
              ELSE /\ UNCHANGED <<files, reports>>
                   /\ returns' = Append(returns, FALSE)
    /\ gi' = gi + 1
    /\ UNCHANGED <<source_content, src, content, prev, last, before, nops>>

SplitNext == CreateCategoryFile

SplitSpec == SplitInit /\ [][SplitNext]_vars

---------------------------------------------------------------------------
(* Notions the properties are stated with: where a definition starts and   *)
(* where it ends.  A definition starts at a line that begins with          *)
(* "const NAME:" or "export const NAME:"; it ends at the first ";" after   *)
(* it that is enclosed in no brace or parenthesis opened since its start   *)
(* (the depth-zero closing terminator).                                    *)

LineStart(s, e) == e = 1 \/ StartsAt(s, e - 1, "\n")

DefStart(s, name) ==
    First({ e \in Occurrences(s, "const " \o name \o ":")
                  \cup Occurrences(s, "export const " \o name \o ":") :
              LineStart(s, e) })

Opens(s)  == Occurrences(s, "(") \cup Occurrences(s, "{")
Closes(s) == Occurrences(s, ")") \cup Occurrences(s, "}")

Depth(opens, closes, a, i) ==
    Cardinality({ k \in opens : a <= k /\ k <= i })
    - Cardinality({ k \in closes : a <= k /\ k <= i })

TerminatorFrom(s, a, opens, closes) ==
    First({ i \in Occurrences(s, ";") : i >= a /\ Depth(opens, closes, a, i) = 0 })

\* position of the terminator of the definition of name; 0 if the definition is
\* absent or never closes before the end of the file
DefEnd(s, name) ==
    IF DefStart(s, name) = 0 THEN 0
    ELSE TerminatorFrom(s, DefStart(s, name), Opens(s), Closes(s))

\* the last position of the definition: its terminator, else the end of the file
SpanEnd(s, name) == IF DefEnd(s, name) = 0 THEN Len(s) ELSE DefEnd(s, name)

\* where the right-hand side of the definition starts
RhsStart(s, name) == Find(s, " = ", DefStart(s, name)) + 3

\* the right-hand-side expression, without the terminator
RhsText(s, name) == SubSeq(s, RhsStart(s, name), DefEnd(s, name) - 1)

Names(list) == { list[k] : k \in DOMAIN list }

StaticNames == Names(static_components)

\* component -> divisor, as add_frame_throttling assigns them
Assignment ==
    { <<n, ParticleThrottle>> : n \in Names(particle_components) }
    \cup { <<n, LightThrottle>> : n \in Names(light_components) }
    \cup { <<n, SlowThrottle>> : n \in Names(slow_anim_components) }
    \cup { <<n, MediumThrottle>> : n \in Names(medium_anim_components) }

\* the opening was inserted for name by the call that led from p to c
OpeningInserted(p, c, name) ==
    /\ DefStart(p, name) # 0
    /\ ~StartsAt(p, RhsStart(p, name), MemoOpen)
    /\ StartsAt(c, RhsStart(c, name), MemoOpen)

\* in c the definition of name reads  React.memo( rhs )  with exactly one closing
\* paren, directly before or directly after the terminator
WrappedAt(c, r, rhs) ==
    \/ StartsAt(c, r, MemoOpen \o rhs \o ");") /\ ~StartsAt(c, r, MemoOpen \o rhs \o ");)")
    \/ StartsAt(c, r, MemoOpen \o rhs \o ";)") /\ ~StartsAt(c, r, MemoOpen \o rhs \o ";))")

Wrapped(p, c, name) == WrappedAt(c, RhsStart(c, name), RhsText(p, name))

---------------------------------------------------------------------------
(* Properties of optimize_truckbay.py                                      *)

\* C1: the memoization pass is idempotent - running it on its own output
\* changes nothing.
C1_MemoizeIdempotent ==
    (last.op = "memoize" /\ before.op = "memoize") => content = prev

\* C2: guard injection is idempotent - the same call of
\* add_throttle_to_component made twice in a row gives the buffer of the first.
C2_ThrottleIdempotent ==
    (last.op = "throttle_one" /\ before = last) => content = prev

\* C3: whenever the memoization pass inserts the opening "React.memo(" for a
\* component whose definition has an end, it also inserts exactly one closing
\* paren for it, at the end of that component's own definition.
C3_ClosingAtOwnEnd ==
    last.op = "memoize" =>
        \A n \in StaticNames :
            (OpeningInserted(prev, content, n) /\ DefEnd(prev, n) # 0)
                => Wrapped(prev, content, n)

\* C4: a listed component whose body never closes before the end of the file is
\* left unchanged by the memoization pass, and the other listed components are
\* wrapped all the same.
C4_UnclosedLeftUnchanged ==
    last.op = "memoize" =>
        \A n \in StaticNames :
            (DefStart(prev, n) # 0 /\ DefEnd(prev, n) = 0) =>
                /\ From(content, DefStart(content, n)) = From(prev, DefStart(prev, n))
                /\ \A m \in StaticNames \ {n} :
                       (/\ DefEnd(prev, m) # 0
                        /\ ~StartsAt(prev, RhsStart(prev, m), MemoOpen))
                           => Wrapped(prev, content, m)

\* the first per-tick callback registered inside the definition of name:
\* the position of the brace that opens its body, or 0
FirstCallback(s, name) ==
    LET k == Find(s, "useFrame((", DefStart(s, name)) IN
    IF DefStart(s, name) = 0 \/ k = 0 \/ k > SpanEnd(s, name) THEN 0
    ELSE UseFrameEnd(s, k)

\* C8: after the throttling pass every component of the assignment lists that
\* is defined in the file and registers a per-tick callback has, as the first
\* statement of its first callback, the guard with the divisor of its class.
C8_GuardWithClassDivisor ==
    last.op = "throttle" =>
        \A a \in Assignment :
            FirstCallback(content, a[1]) # 0
                => StartsAt(content, FirstCallback(content, a[1]) + 1, Guard(a[2]))

IncrementCall == "incrementGlobalFrame();"

\* C9: after one or more applications of consolidate_main_useframe to a file
\* whose top-level component has a per-tick callback, the buffer holds exactly
\* one counter increment, and it lies in the top-level component.
C9_OneIncrementInMain ==
    (/\ last.op = "consolidate"
     /\ before.op \in {"none", "consolidate"}
     /\ FirstCallback(src, "TruckBay") # 0)
        => /\ Cardinality(Occurrences(content, IncrementCall)) = 1
           /\ \A i \in Occurrences(content, IncrementCall) :
                  /\ i > DefStart(content, "TruckBay")
                  /\ i < SpanEnd(content, "TruckBay")

\* C10: a call add_throttle_to_component(content, name, d) inserts at most one
\* guard, and only inside the definition of the component named exactly name.
C10_GuardOnlyInNamed ==
    last.op = "throttle_one" =>
        \/ content = prev
        \/ /\ DefStart(prev, last.name) # 0
           /\ \E i \in DefStart(prev, last.name)..SpanEnd(prev, last.name) :
                  content = InsertAfter(prev, i, Guard(last.level))

---------------------------------------------------------------------------
(* Properties of split_ambient_details.py                                  *)

\* the category processed by the last call of create_category_file
Done == categories[gi - 1]

\* a definition may be taken with the comment line directly above it
TextStarts(s, a) ==
    {a} \cup { c \in Occurrences(s, "//") :
                 LineStart(s, c) /\ c < a /\ Find(s, "\n", c) = a - 1 }

\* the text of the definition of name: header through terminator, with or
\* without the line break that follows it
DefinitionTexts(s, name) ==
    { SubSeq(s, a, z) : a \in TextStarts(s, DefStart(s, name)),
                        z \in { DefEnd(s, name), DefEnd(s, name) + 1 } }

\* C5: for every component name defined in the source, extract_component
\* returns exactly the text of its definition, a contiguous piece of the file.
C5_ExtractIsDefinitionText ==
    gi > 1 =>
        \A n \in Names(Done.components) :
            DefEnd(source_content, n) # 0
                => extract_component(source_content, n)
                       \in DefinitionTexts(source_content, n)

Present(s, components) == { n \in Names(components) : DefStart(s, n) # 0 }

\* C6: the count reported for a category is the number of its names that are
\* defined in the source, and exactly the names without a definition are
\* warned about.
C6_CountIsNumberPresent ==
    gi > 1 =>
        LET present == Present(source_content, Done.components) IN
        /\ present # {} =>
               \E k \in DOMAIN reports :
                   reports[k] = <<Done.filename, Cardinality(present),
                                  Len(Done.components)>>
        /\ present = {} => \A k \in DOMAIN reports : reports[k][1] # Done.filename
        /\ \A n \in Names(Done.components) :
               (n \in Names(warnings)) <=> (n \notin present)

\* the names of a list that extract_component finds, in the order of the list
Extracted(s, components) ==
    SelectSeq(components, LAMBDA n : extract_component(s, n) # "")

RECURSIVE TextsOf(_, _, _)
TextsOf(s, names, k) ==
    IF k > Len(names) THEN ""
    ELSE extract_component(s, names[k]) \o "\n" \o TextsOf(s, names, k + 1)

ExpectedContent(s, config) ==
    original_imports(s) \o "\n" \o "// " \o config.description \o "\n\n"
    \o TextsOf(s, Extracted(s, config.components), 1)

\* C7: a category file is written if and only if at least one of its names was
\* extracted; its content is the import block, the description comment and the
\* extracted texts in the order of the list, missing names being skipped; files
\* already written stay, and every call returns whether it wrote.
C7_FileWrittenIffExtracted ==
    gi > 1 =>
        LET found == Extracted(source_content, Done.components)
            mine  == { k \in DOMAIN files : files[k][1] = Done.filename }
        IN  /\ Len(returns) = gi - 1
            /\ returns[gi - 1] = (Len(found) > 0)
            /\ Len(files) = Cardinality({ k \in DOMAIN returns : returns[k] })
            /\ IF Len(found) > 0
               THEN /\ mine = {Len(files)}
                    /\ files[Len(files)][2] = ExpectedContent(source_content, Done)
               ELSE mine = {}

\* a call has written a file for a category of which an earlier name is missing
\* and a later one extracted, after a call for another category wrote nothing
C7_Witness ==
    /\ gi > 2
    /\ returns[gi - 1]
    /\ \E k \in 1..(gi - 2) : ~returns[k]
    /\ \E i, j \in DOMAIN Done.components :
           /\ i < j
           /\ extract_component(source_content, Done.components[i]) = ""
           /\ extract_component(source_content, Done.components[j]) # ""
    /\ files[Len(files)][1] = Done.filename

===========================================================================
